---------------------------- MODULE Spec2Model ----------------------------
(***************************************************************************)
(* A model of download-ticks: the range splitter (utils.rs), the          *)
(* per-exchange request plans (market/binance.rs, market/gate.rs), the    *)
(* retrying GET (utils.rs fetch_url), the command validation (cli.rs),    *)
(* the run of main (main.rs) and the persisted file (utils.rs, data.rs).  *)
(*                                                                         *)
(* An instant (chrono DateTime<Utc>) is an integer number of seconds      *)
(* since the epoch; every instant of the model is a whole second.         *)
(***************************************************************************)
EXTENDS Integers, Sequences, FiniteSets, TLC

(***************************************************************************)
(* Bounds of the model.                                                    *)
(***************************************************************************)
\* from_date ranges over 0 .. MaxStartHalf half-steps after the epoch
MaxStartHalf == 2
\* to_date lies up to MaxChunks whole chunk periods (max_duration + step) ...
MaxChunks == 2
\* ... plus -2 .. MaxExtraHalf half-steps after from_date
MaxExtraHalf == 3
\* fetch_url is called with retry in 0 .. MaxRetry (of u8's 0 .. 255)
MaxRetry == 3
\* ... and pause in 0 .. MaxPause seconds
MaxPause == 1
\* one response holds 0 .. MaxRecs records
MaxRecs == 2
\* the first record of a file opens 0 .. MaxFirst steps after the epoch
MaxFirst == 2

(***************************************************************************)
(* Program constants.                                                      *)
(***************************************************************************)
\* Duration::minutes(1000), Duration::hours(1000), Duration::days(1000)
MaxCandles == 1000
\* the limit=1000 query parameter of the Binance request
Limit == 1000
\* chrono: seconds in Duration::minutes(1), ::hours(1), ::days(1)
Minute == 60
Hour == 3600
Day == 86400

VARIABLES
    cmd,            \* the parsed Command: symbol, interval, from_date, to_date, ...
    \* the splitter and the request plans
    split_out,      \* Some(the value split_intervals returned), None before the call
    binance_urls,   \* Some(the value Binance::urls returned), None before the call
    gate_urls,      \* Some(the value Gate::urls returned), None before the call
    build_out,      \* Some(the value Command::build returned), None before the call
    \* fetch_url
    retry,          \* its argument retry: u8
    pause,          \* its argument pause: u64
    fpc,            \* where the call is: "loop", "sleep", "done" ("idle": no call)
    attempt,        \* the loop variable of for attempt in 1..=retry
    last_error,     \* Option<reqwest::Error>
    fret,           \* Some(the value returned); Some(Panic) when unwrap() panicked
    trace,          \* what the call did so far: its GETs and sleeps, in order
    \* main
    mpc,            \* where main is: "start", "loop", "single", "done" ("idle": no run)
    intervals,      \* Some(the sub-ranges of the for loop), None before the split
    idx,            \* the number of turns of the for loop taken
    klines,         \* the record buffer, a Vec<Kline>
    file,           \* the output file: Some(its JSON content), None when it does not exist
    progress,       \* the progress counter
    mret,           \* Some(the value main returned), None while it runs
    requests,       \* the GETs main issued so far, with their outcomes, in order
    in_flight,      \* the positions of the GETs sent and not yet answered
    \* reading the file back
    read_out,       \* Some(the value read_data_from_file returned)
    last_out,       \* Some(the value get_last_close_time_from_file returned)
    eff_start       \* Some(the effective start the resume planning returned)

planVars == <<split_out, binance_urls, gate_urls, build_out>>
fetchVars == <<retry, pause, fpc, attempt, last_error, fret, trace>>
mainVars == <<mpc, intervals, idx, klines, file, progress, mret, requests, in_flight>>
fileVars == <<read_out, last_out, eff_start>>
vars == <<cmd, planVars, fetchVars, mainVars, fileVars>>

(***************************************************************************)
(* Option<T>: None, Some(x).                                               *)
(***************************************************************************)
None == <<>>
Some(x) == <<x>>
IsSome(o) == o # <<>>
Unwrap(o) == o[1]

Min(a, b) == IF a <= b THEN a ELSE b

\* Result<T, E>
Ok(x) == [ok |-> TRUE, val |-> x]
Err(e) == [ok |-> FALSE, err |-> e]
\* the thread panicked: the call returned nothing
Panic == [ok |-> FALSE, panic |-> TRUE]

(***************************************************************************)
(* The parts of the state a specification does not use stay as they are   *)
(* before any call.                                                        *)
(***************************************************************************)
PlanIdle ==
    /\ split_out = None
    /\ binance_urls = None
    /\ gate_urls = None
    /\ build_out = None

FetchIdle ==
    /\ retry = 0
    /\ pause = 0
    /\ fpc = "idle"
    /\ attempt = 0
    /\ last_error = None
    /\ fret = None
    /\ trace = <<>>

MainIdle ==
    /\ mpc = "idle"
    /\ intervals = None
    /\ idx = 0
    /\ klines = <<>>
    /\ file = None
    /\ progress = 0
    /\ mret = None
    /\ requests = <<>>
    /\ in_flight = {}

FileIdle ==
    /\ read_out = None
    /\ last_out = None
    /\ eff_start = None

\* a command without dates, for the specifications that use none
CmdIdle ==
    cmd = [symbol |-> "BTCUSDT", interval |-> "M1", from_date |-> None, to_date |-> None]

(***************************************************************************)
(* Interval: the variants split_intervals matches on.                      *)
(***************************************************************************)
Interval == {"M1", "H1", "D1"}

\* impl fmt::Display for Interval
IntervalDisplay(interval) ==
    CASE interval = "M1" -> "1m"
      [] interval = "H1" -> "1h"
      [] interval = "D1" -> "1d"

\* the second component of the match in split_intervals: one candle
plus_duration(interval) ==
    CASE interval = "M1" -> 1 * Minute
      [] interval = "H1" -> 1 * Hour
      [] interval = "D1" -> 1 * Day

\* the first component of the match in split_intervals: 1000 candles
max_duration(interval) ==
    CASE interval = "M1" -> MaxCandles * Minute
      [] interval = "H1" -> MaxCandles * Hour
      [] interval = "D1" -> MaxCandles * Day

(***************************************************************************)
(* split_intervals: the loop                                               *)
(*     while current_start < end {                                         *)
(*         current_end = min(current_start + max_duration, end);           *)
(*         intervals.push((current_start, current_end));                   *)
(*         current_start = current_end + plus_duration; }                  *)
(***************************************************************************)
\* a faulty advance: the next sub-range starts where the last one ended
NextStart_NoGap(current_end, plus) == current_end

\* current_start = current_end + plus_duration; // avoid overlapping
NextStart(current_end, plus) == current_end + plus

RECURSIVE SplitLoop(_, _, _, _, _)
SplitLoop(current_start, end, max, plus, pushed) ==
    IF current_start < end
    THEN LET current_end == Min(current_start + max, end)
         IN  SplitLoop(NextStart(current_end, plus), end, max, plus,
                       Append(pushed, <<current_start, current_end>>))
    ELSE pushed

split_intervals(start, end, interval) ==
    SplitLoop(start, end, max_duration(interval), plus_duration(interval), <<>>)

(***************************************************************************)
(* Timestamps as the URL carries them.  timestamp() is the number of      *)
(* seconds; timestamp_millis() is timestamp() * 1000 + the milliseconds   *)
(* of the second, which are 0 for a whole second.  The decimal text is    *)
(* what format! writes.                                                    *)
(***************************************************************************)
timestamp(t) == ToString(t)

timestamp_millis(t) == IF t = 0 THEN "0" ELSE ToString(t) \o "000"

(***************************************************************************)
(* A URL: its endpoint and its query parameters, in order.                 *)
(***************************************************************************)
Url(base, query) == [base |-> base, query |-> query]

HasParam(url, key) == \E i \in 1..Len(url.query) : url.query[i][1] = key

Param(url, key) ==
    url.query[CHOOSE i \in 1..Len(url.query) : url.query[i][1] = key][2]

BinanceBaseUrl == "https://api.binance.com/api/v3/klines"
GateBaseUrl == "https://api.gateio.ws/api/v4/spot/candlesticks"

\* a faulty plan: one request for the whole range, whatever its length
BinanceUrls_Single(c) ==
    LET q == <<<<"symbol", c.symbol>>, <<"interval", IntervalDisplay(c.interval)>>,
               <<"limit", ToString(Limit)>>>>
    IN  IF IsSome(c.from_date) /\ IsSome(c.to_date)
        THEN <<Url(BinanceBaseUrl,
                   q \o <<<<"startTime", timestamp_millis(Unwrap(c.from_date))>>,
                          <<"endTime", timestamp_millis(Unwrap(c.to_date))>>>>)>>
        ELSE <<Url(BinanceBaseUrl, q)>>

\* impl Endpoint for Binance: urls
BinanceUrls(c) ==
    LET q == <<<<"symbol", c.symbol>>, <<"interval", IntervalDisplay(c.interval)>>,
               <<"limit", ToString(Limit)>>>>
    IN  IF IsSome(c.from_date) /\ IsSome(c.to_date)
        THEN LET datetimes == split_intervals(Unwrap(c.from_date), Unwrap(c.to_date),
                                              c.interval)
             IN  [i \in 1..Len(datetimes) |->
                    Url(BinanceBaseUrl,
                        q \o <<<<"startTime", timestamp_millis(datetimes[i][1])>>,
                               <<"endTime", timestamp_millis(datetimes[i][2])>>>>)]
        ELSE IF IsSome(c.from_date)
        THEN <<Url(BinanceBaseUrl,
                   q \o <<<<"startTime", timestamp_millis(Unwrap(c.from_date))>>>>)>>
        ELSE IF IsSome(c.to_date)
        THEN <<Url(BinanceBaseUrl,
                   q \o <<<<"endTime", timestamp_millis(Unwrap(c.to_date))>>>>)>>
        ELSE <<Url(BinanceBaseUrl, q)>>

\* impl Endpoint for Gate: urls
GateUrls(c) ==
    LET q == <<<<"currency_pair", c.symbol>>,
               <<"interval", IntervalDisplay(c.interval)>>>>
    IN  IF IsSome(c.from_date) /\ IsSome(c.to_date)
        THEN LET datetimes == split_intervals(Unwrap(c.from_date), Unwrap(c.to_date),
                                              c.interval)
             IN  [i \in 1..Len(datetimes) |->
                    Url(GateBaseUrl,
                        q \o <<<<"from", timestamp(datetimes[i][1])>>,
                               <<"to", timestamp(datetimes[i][2])>>>>)]
        ELSE IF IsSome(c.from_date)
        THEN <<Url(GateBaseUrl, q \o <<<<"from", timestamp(Unwrap(c.from_date))>>>>)>>
        ELSE IF IsSome(c.to_date)
        THEN <<Url(GateBaseUrl, q \o <<<<"to", timestamp(Unwrap(c.to_date))>>>>)>>
        ELSE <<Url(GateBaseUrl, q \o <<<<"limit", ToString(Limit)>>>>)>>

(***************************************************************************)
(* The commands of the model: from_date on the half-step grid, to_date    *)
(* around every multiple of the chunk period after it (and just before    *)
(* from_date), either of them absent.                                      *)
(***************************************************************************)
HalfStep(interval) == plus_duration(interval) \div 2

\* a chunk and the gap after it, in half-steps
PeriodHalf == 2 * MaxCandles + 2

SpanHalf == {c * PeriodHalf + e : c \in 0..MaxChunks, e \in (-2)..MaxExtraHalf}

FromDates(interval) == {a * HalfStep(interval) : a \in 0..MaxStartHalf}

ToDates(interval) ==
    {s + d * HalfStep(interval) : s \in FromDates(interval), d \in SpanHalf}

Commands ==
    UNION {[symbol : {"BTCUSDT"}, interval : {iv},
            from_date : {None} \cup {Some(t) : t \in FromDates(iv)},
            to_date : {None} \cup {Some(t) : t \in ToDates(iv)}] : iv \in Interval}

(***************************************************************************)
(* SpecPlan: the splitter and the two request plans applied to a command. *)
(***************************************************************************)
\* Command::build: the dates are checked after parsing
Command_build(c) ==
    IF IsSome(c.from_date) /\ IsSome(c.to_date)
       /\ Unwrap(c.to_date) < Unwrap(c.from_date)
    THEN Err("InvalidDatetime")
    ELSE Ok(c)

InitPlan ==
    /\ cmd \in Commands
    /\ PlanIdle
    /\ FetchIdle
    /\ MainIdle
    /\ FileIdle

CallSplitIntervals ==
    /\ split_out = None
    /\ IsSome(cmd.from_date) /\ IsSome(cmd.to_date)
    /\ split_out' = Some(split_intervals(Unwrap(cmd.from_date), Unwrap(cmd.to_date),
                                         cmd.interval))
    /\ UNCHANGED <<cmd, binance_urls, gate_urls, build_out, fetchVars, mainVars, fileVars>>

CallBinanceUrls ==
    /\ binance_urls = None
    /\ binance_urls' = Some(BinanceUrls(cmd))
    /\ UNCHANGED <<cmd, split_out, gate_urls, build_out, fetchVars, mainVars, fileVars>>

CallGateUrls ==
    /\ gate_urls = None
    /\ gate_urls' = Some(GateUrls(cmd))
    /\ UNCHANGED <<cmd, split_out, binance_urls, build_out, fetchVars, mainVars, fileVars>>

CallCommandBuild ==
    /\ build_out = None
    /\ build_out' = Some(Command_build(cmd))
    /\ UNCHANGED <<cmd, split_out, binance_urls, gate_urls, fetchVars, mainVars, fileVars>>

NextPlan == CallSplitIntervals \/ CallBinanceUrls \/ CallGateUrls \/ CallCommandBuild

SpecPlan == InitPlan /\ [][NextPlan]_vars

(***************************************************************************)
(* Claims about the splitter and the request plans, under SpecPlan.       *)
(***************************************************************************)
SplitStart == Unwrap(cmd.from_date)
SplitEnd == Unwrap(cmd.to_date)
SplitResult == Unwrap(split_out)

\* t lies inside the sub-range iv, both bounds included
Inside(t, iv) == iv[1] <= t /\ t <= iv[2]

\* C1: for start <= end the sub-ranges returned by split_intervals cover
\* [start, end] exactly: the first starts at start, the last ends at end, every
\* candle instant start + k*step of [start, end] lies inside a sub-range, and no
\* sub-range is longer than max_duration.  (For start = end the range is the
\* degenerate one, for which the empty sequence is accepted.)
C1_Coverage ==
    (IsSome(split_out) /\ SplitStart <= SplitEnd) =>
        LET r == SplitResult
            step == plus_duration(cmd.interval)
        IN  IF SplitStart = SplitEnd
            THEN r = <<>>
            ELSE /\ r # <<>>
                 /\ r[1][1] = SplitStart
                 /\ r[Len(r)][2] = SplitEnd
                 /\ \A k \in 0..((SplitEnd - SplitStart) \div step) :
                        \E i \in 1..Len(r) : Inside(SplitStart + k * step, r[i])
                 /\ \A i \in 1..Len(r) : r[i][2] - r[i][1] <= max_duration(cmd.interval)

\* C2: consecutive sub-ranges a, b of split_intervals satisfy
\* b.start = a.end + step, so the sub-ranges are pairwise disjoint and strictly
\* ascending by start.
C2_NoOverlap ==
    IsSome(split_out) =>
        LET r == SplitResult
        IN  /\ \A i \in 1..Len(r) : r[i][1] <= r[i][2]
            /\ \A i \in 1..(Len(r) - 1) :
                   /\ r[i + 1][1] = r[i][2] + plus_duration(cmd.interval)
                   /\ r[i][2] < r[i + 1][1]
                   /\ r[i][1] < r[i + 1][1]

\* split_intervals returned three sub-ranges
C2_Witness == IsSome(split_out) /\ Len(SplitResult) = 3

\* the shape of one exchange's plan for the command
PlanShape(urls, startKey, endKey, encode(_)) ==
    IF IsSome(cmd.from_date) /\ IsSome(cmd.to_date)
    THEN LET d == split_intervals(SplitStart, SplitEnd, cmd.interval)
         IN  /\ Len(urls) = Len(d)
             /\ \A i \in 1..Len(d) :
                    /\ HasParam(urls[i], startKey)
                    /\ Param(urls[i], startKey) = encode(d[i][1])
                    /\ HasParam(urls[i], endKey)
                    /\ Param(urls[i], endKey) = encode(d[i][2])
    ELSE Len(urls) = 1

\* C9: with both dates given, urls of either exchange returns one URL per
\* sub-range of split_intervals, in order, each with that sub-range's start and
\* end; with one date or none it returns exactly one URL.
C9_PlanShape ==
    /\ IsSome(binance_urls) =>
           PlanShape(Unwrap(binance_urls), "startTime", "endTime", timestamp_millis)
    /\ IsSome(gate_urls) => PlanShape(Unwrap(gate_urls), "from", "to", timestamp)

\* both plans were built for a range of three sub-ranges
C9_Witness ==
    /\ IsSome(binance_urls) /\ Len(Unwrap(binance_urls)) = 3
    /\ IsSome(gate_urls) /\ Len(Unwrap(gate_urls)) = 3

\* the candle open times (the multiples of step) in [s, e], both bounds included
CandlesIn(s, e, step) == (e \div step) - ((s + step - 1) \div step) + 1

\* C10: every sub-range of split_intervals, both bounds included, holds at
\* most 1000 candle open times, so one request of limit 1000 returns them all.
C10_FitsCap ==
    IsSome(split_out) =>
        \A i \in 1..Len(SplitResult) :
            CandlesIn(SplitResult[i][1], SplitResult[i][2],
                      plus_duration(cmd.interval)) <= Limit

(***************************************************************************)
(* fetch_url(url, retry, pause):                                           *)
(*     let mut last_error = None;                                          *)
(*     for attempt in 1..=retry {                                          *)
(*         match reqwest::get(url).await {                                 *)
(*             Ok(response) => return Ok(response),                        *)
(*             Err(e) => { last_error = Some(e); sleep(pause).await; } } } *)
(*     Err(last_error.unwrap())                                            *)
(*                                                                         *)
(* reqwest::get answers Err for a transport error only; a response of any *)
(* status, with any body, is Ok(response).                                 *)
(***************************************************************************)
TransportErrors == {"connect", "timeout"}

Responses == [status : {200, 500}, body : {"klines", "garbage"}]

GetEvent(n, result) == [op |-> "get", attempt |-> n, result |-> result]

SleepEvent(secs) == [op |-> "sleep", secs |-> secs]

InitFetch ==
    /\ CmdIdle
    /\ PlanIdle
    /\ MainIdle
    /\ FileIdle
    /\ retry \in 0..MaxRetry
    /\ pause \in 0..MaxPause
    /\ fpc = "loop"
    /\ attempt = 1
    /\ last_error = None
    /\ fret = None
    /\ trace = <<>>

\* Ok(response) => return Ok(response)
FetchGetOk ==
    /\ fpc = "loop"
    /\ attempt <= retry
    /\ \E response \in Responses :
          /\ trace' = Append(trace, GetEvent(attempt, Ok(response)))
          /\ fret' = Some(Ok(response))
    /\ fpc' = "done"
    /\ UNCHANGED <<cmd, planVars, mainVars, fileVars, retry, pause, attempt, last_error>>

\* Err(e) => last_error = Some(e), up to the sleep
FetchGetErr ==
    /\ fpc = "loop"
    /\ attempt <= retry
    /\ \E kind \in TransportErrors :
          LET e == [kind |-> kind, attempt |-> attempt]
          IN  /\ trace' = Append(trace, GetEvent(attempt, Err(e)))
              /\ last_error' = Some(e)
    /\ fpc' = "sleep"
    /\ UNCHANGED <<cmd, planVars, mainVars, fileVars, retry, pause, attempt, fret>>

\* tokio::time::sleep(pause).await, then the next turn of the loop
FetchSleep ==
    /\ fpc = "sleep"
    /\ trace' = Append(trace, SleepEvent(pause))
    /\ attempt' = attempt + 1
    /\ fpc' = "loop"
    /\ UNCHANGED <<cmd, planVars, mainVars, fileVars, retry, pause, last_error, fret>>

\* Err(last_error.unwrap())
FetchLoopEnd ==
    /\ fpc = "loop"
    /\ attempt > retry
    /\ fret' = Some(IF IsSome(last_error) THEN Err(Unwrap(last_error)) ELSE Panic)
    /\ fpc' = "done"
    /\ UNCHANGED <<cmd, planVars, mainVars, fileVars, retry, pause, attempt, last_error, trace>>

NextFetch == FetchGetOk \/ FetchGetErr \/ FetchSleep \/ FetchLoopEnd

SpecFetch == InitFetch /\ [][NextFetch]_vars

(***************************************************************************)
(* Claims about fetch_url, under SpecFetch.                                *)
(***************************************************************************)
IsGet(event) == event.op = "get"

\* the GETs of the call, in order
Gets == SelectSeq(trace, IsGet)

\* C5: fetch_url retries a failed GET up to retry times, with a pause of
\* `pause` seconds between attempts; it returns Ok with the first successful
\* response and attempts nothing after it; when every attempt failed it returns
\* Err with the error of the last attempt.
C5_RetryContract ==
    fpc = "done" =>
        /\ Len(Gets) >= 1
        /\ Len(Gets) <= retry + 1
        /\ \A i \in 1..(Len(Gets) - 1) : ~Gets[i].result.ok
        /\ \A i \in 1..(Len(trace) - 1) :
               IsGet(trace[i]) => trace[i + 1] = SleepEvent(pause)
        /\ fret = Some(Gets[Len(Gets)].result)

\* a request that did not yield records: a transport error, a status that is
\* not 2xx, or a body that does not decode
FailedOutcome(result) ==
    \/ ~result.ok
    \/ result.val.status # 200
    \/ result.val.body # "klines"

\* C6: a transport error, a non-2xx status and an undecodable body are each
\* followed by another attempt until the retry limit is used up: fetch_url
\* ends on a failed request only after `retry` attempts.
C6_AllFailuresRetried ==
    (fpc = "done" /\ Len(Gets) >= 1 /\ FailedOutcome(Gets[Len(Gets)].result)) =>
        Len(Gets) >= retry

\* C14: for every retry of u8's range, 0 included, a call of fetch_url that
\* reaches the return after the loop has a recorded error: last_error is Some
\* there and the call returns Err of it.
C14_ErrorRecorded ==
    (fpc = "done" /\ (Gets = <<>> \/ ~Gets[Len(Gets)].result.ok)) =>
        /\ IsSome(last_error)
        /\ fret = Some(Err(Unwrap(last_error)))

(***************************************************************************)
(* Records and the file.  A Kline is kept by its two instants.  The JSON  *)
(* integer m * 10^z is written [digits |-> m, zeros |-> z].                *)
(***************************************************************************)
Kline(open, step) == [open_time |-> open, close_time |-> open + step - 1]

\* chrono::serde::ts_microseconds::serialize: timestamp_micros()
ts_microseconds_serialize(t) == [digits |-> t, zeros |-> 6]

\* #[derive(Serialize)] struct Kline, by serde_json::to_writer
to_writer(ks) ==
    [i \in 1..Len(ks) |->
        [open_time |-> ts_microseconds_serialize(ks[i].open_time),
         close_time |-> ts_microseconds_serialize(ks[i].close_time)]]

(***************************************************************************)
(* The exchange, as main sees it: a GET fails in transport, or is answered *)
(* with a body that does not decode as Vec<Kline>, or with up to MaxRecs   *)
(* candles of the requested range, oldest first.                           *)
(***************************************************************************)
\* the first candle open time at or after s
FirstOpen(s, step) == ((s + step - 1) \div step) * step

RangeKlines(range, step, n) ==
    LET first == FirstOpen(range[1], step)
        have == IF range[2] < first THEN 0 ELSE ((range[2] - first) \div step) + 1
    IN  [k \in 1..Min(n, have) |-> Kline(first + (k - 1) * step, step)]

RecentKlines(step, n) == [k \in 1..n |-> Kline((k - 1) * step, step)]

\* reqwest::get(url).await? and response.json::<Vec<Kline>>().await?
GetFailures == {"reqwest::get", "response.json"}

\* a faulty append: the new records go in front of the buffer
Extend_Front(buffer, data) == data \o buffer

\* klines.append(&mut data)
Extend(buffer, data) == buffer \o data

\* write_data_to_file(output_file, &klines); its result is dropped by `_ =`
write_data_to_file(output_file, ks, old) ==
    IF IsSome(output_file) THEN Some(to_writer(ks)) ELSE old

(***************************************************************************)
(* SpecMain: one run of main.                                              *)
(***************************************************************************)
MainCommands ==
    UNION {[symbol : {c.symbol}, interval : {c.interval}, from_date : {c.from_date},
            to_date : {c.to_date}, output_file : {None, Some("output.json")},
            verbose : BOOLEAN] : c \in Commands}

InitMain ==
    /\ cmd \in MainCommands
    /\ PlanIdle
    /\ FetchIdle
    /\ FileIdle
    /\ mpc = "start"
    /\ intervals = None
    /\ idx = 0
    /\ klines = <<>>
    /\ file = None
    /\ progress = 0
    /\ mret = None
    /\ requests = <<>>
    /\ in_flight = {}

\* Command::parse() up to the choice of the branch; the split of the range
MainStart ==
    /\ mpc = "start"
    /\ IF IsSome(cmd.from_date) /\ IsSome(cmd.to_date)
       THEN /\ intervals' = Some(split_intervals(Unwrap(cmd.from_date),
                                                 Unwrap(cmd.to_date), cmd.interval))
            /\ progress' = 1
            /\ mpc' = "loop"
       ELSE /\ mpc' = "single"
            /\ UNCHANGED <<intervals, progress>>
    /\ UNCHANGED <<cmd, planVars, fetchVars, fileVars, idx, klines, file, mret, requests,
                   in_flight>>

\* one turn of `for (start, end) in intervals`: reqwest::get(url) is sent and
\* main waits at the .await
MainLoopSend ==
    /\ mpc = "loop"
    /\ idx < Len(Unwrap(intervals))
    /\ in_flight = {}
    /\ in_flight' = {idx + 1}
    /\ UNCHANGED <<cmd, planVars, fetchVars, fileVars, mpc, intervals, idx, klines, file,
                   progress, mret, requests>>

\* the request of the turn yields records
MainLoopOk ==
    /\ mpc = "loop"
    /\ in_flight = {idx + 1}
    /\ in_flight' = {}
    /\ \E n \in 0..MaxRecs :
          LET range == Unwrap(intervals)[idx + 1]
              data == RangeKlines(range, plus_duration(cmd.interval), n)
          IN  /\ requests' = Append(requests, [range |-> Some(range), outcome |-> Ok(data)])
              /\ klines' = Extend(klines, data)
              /\ file' = write_data_to_file(cmd.output_file, klines', file)
    /\ progress' = IF cmd.verbose THEN progress + 1 ELSE progress
    /\ idx' = idx + 1
    /\ UNCHANGED <<cmd, planVars, fetchVars, fileVars, mpc, intervals, mret>>

\* the request of the turn fails: the `?` returns the error from main
MainLoopErr ==
    /\ mpc = "loop"
    /\ in_flight = {idx + 1}
    /\ in_flight' = {}
    /\ \E failure \in GetFailures :
          /\ requests' = Append(requests, [range |-> Some(Unwrap(intervals)[idx + 1]),
                                           outcome |-> Err(failure)])
          /\ mret' = Some(Err(failure))
    /\ mpc' = "done"
    /\ UNCHANGED <<cmd, planVars, fetchVars, fileVars, intervals, idx, klines, file, progress>>

\* the loop is over: Ok(())
MainLoopEnd ==
    /\ mpc = "loop"
    /\ idx = Len(Unwrap(intervals))
    /\ mret' = Some(Ok("()"))
    /\ mpc' = "done"
    /\ UNCHANGED <<cmd, planVars, fetchVars, fileVars, intervals, idx, klines, file,
                   progress, requests, in_flight>>

\* the else branch: the one request without a range is sent
MainSingleSend ==
    /\ mpc = "single"
    /\ in_flight = {}
    /\ in_flight' = {1}
    /\ UNCHANGED <<cmd, planVars, fetchVars, fileVars, mpc, intervals, idx, klines, file,
                   progress, mret, requests>>

\* the else branch: the request yields records
MainSingleOk ==
    /\ mpc = "single"
    /\ in_flight = {1}
    /\ in_flight' = {}
    /\ \E n \in 0..MaxRecs :
          LET data == RecentKlines(plus_duration(cmd.interval), n)
          IN  /\ requests' = Append(requests, [range |-> None, outcome |-> Ok(data)])
              /\ klines' = Extend(klines, data)
              /\ file' = write_data_to_file(cmd.output_file, klines', file)
    /\ mret' = Some(Ok("()"))
    /\ mpc' = "done"
    /\ UNCHANGED <<cmd, planVars, fetchVars, fileVars, intervals, idx, progress>>

\* the else branch: the request fails
MainSingleErr ==
    /\ mpc = "single"
    /\ in_flight = {1}
    /\ in_flight' = {}
    /\ \E failure \in GetFailures :
          /\ requests' = Append(requests, [range |-> None, outcome |-> Err(failure)])
          /\ mret' = Some(Err(failure))
    /\ mpc' = "done"
    /\ UNCHANGED <<cmd, planVars, fetchVars, fileVars, intervals, idx, klines, file, progress>>

NextMain ==
    \/ MainStart
    \/ MainLoopSend
    \/ MainLoopOk
    \/ MainLoopErr
    \/ MainLoopEnd
    \/ MainSingleSend
    \/ MainSingleOk
    \/ MainSingleErr

SpecMain == InitMain /\ [][NextMain]_vars

(***************************************************************************)
(* Claims about the run of main, under SpecMain.                           *)
(***************************************************************************)
\* the records of the answered requests, in the order of the requests
RECURSIVE Flatten(_)
Flatten(reqs) ==
    IF reqs = <<>>
    THEN <<>>
    ELSE (IF Head(reqs).outcome.ok THEN Head(reqs).outcome.val ELSE <<>>)
             \o Flatten(Tail(reqs))

\* C3: when the request of a sub-range fails, the run still completes, every
\* other sub-range is requested and its records are kept, and only the failure
\* of that sub-range is recorded: no failure aborts the run.
C3_PartialFailureTolerance ==
    (mpc = "done" /\ IsSome(intervals)) =>
        /\ mret = Some(Ok("()"))
        /\ Len(requests) = Len(Unwrap(intervals))
        /\ klines = Flatten(requests)

\* C4: the records of request i stand at position i: request i is the one of
\* sub-range i, the buffer is the concatenation of the responses in the order
\* of the sub-ranges, and so it is in chronological order.
C4_OrderPreserved ==
    IsSome(intervals) =>
        /\ Len(requests) <= Len(Unwrap(intervals))
        /\ \A i \in 1..Len(requests) : requests[i].range = Some(Unwrap(intervals)[i])
        /\ klines = Flatten(requests)
        /\ \A i \in 1..(Len(klines) - 1) : klines[i].open_time < klines[i + 1].open_time

\* a run over three sub-ranges ended, each request answered with records
C4_Witness ==
    /\ mpc = "done"
    /\ mret = Some(Ok("()"))
    /\ Len(requests) = 3
    /\ \A i \in 1..3 : requests[i].outcome.ok /\ Len(requests[i].outcome.val) >= 1

\* C8: a command with to_date < from_date is rejected with InvalidDatetime
\* before anything is built: the splitter is never called with start > end,
\* no request is issued, and the run ends with that error.
C8_ValidationBeforeDispatch ==
    (/\ IsSome(cmd.from_date)
     /\ IsSome(cmd.to_date)
     /\ Unwrap(cmd.to_date) < Unwrap(cmd.from_date)) =>
        /\ intervals = None
        /\ requests = <<>>
        /\ mpc = "done" => mret = Some(Err("InvalidDatetime"))

(***************************************************************************)
(* Reading the file back (utils.rs, data.rs).  The file holds what         *)
(* to_writer wrote; read_data_from_file decodes it as Vec<Data>, whose     *)
(* timestamps go through timestamp::deserialize.                           *)
(***************************************************************************)
RECURSIVE Pow10(_)
Pow10(n) == IF n = 0 THEN 1 ELSE 10 * Pow10(n - 1)

\* DateTime::from_timestamp_millis(value): the instant value milliseconds after
\* the epoch, in seconds.  Every integer of the model lies in chrono's range,
\* where the answer is Some: the from_timestamp_nanos fallback is not taken.
from_timestamp_millis(value) == value.digits * Pow10(value.zeros - 3)

\* timestamp::deserialize: deserialize_u64 with a visitor that has visit_u64
\* only, so a negative integer, or a value that is no integer, is an error
timestamp_deserialize(value) ==
    IF "digits" \notin DOMAIN value \/ value.digits < 0
    THEN Err("invalid type")
    ELSE Ok(from_timestamp_millis(value))

\* a faulty read: the records that do not decode are left out
read_data_from_file_Lenient(f) ==
    IF f = None
    THEN Err("io")
    ELSE LET content == Unwrap(f)
             good(r) == /\ timestamp_deserialize(r.open_time).ok
                        /\ timestamp_deserialize(r.close_time).ok
             kept == SelectSeq(content, good)
         IN  Ok([i \in 1..Len(kept) |->
                    [open_time |-> timestamp_deserialize(kept[i].open_time).val,
                     close_time |-> timestamp_deserialize(kept[i].close_time).val]])

\* from_reader::<_, Vec<Data>> and Data::into
read_data_from_file(f) ==
    IF f = None
    THEN Err("io")
    ELSE LET content == Unwrap(f)
             open(i) == timestamp_deserialize(content[i].open_time)
             close(i) == timestamp_deserialize(content[i].close_time)
         IN  IF \A i \in 1..Len(content) : open(i).ok /\ close(i).ok
             THEN Ok([i \in 1..Len(content) |->
                         [open_time |-> open(i).val, close_time |-> close(i).val]])
             ELSE Err("serde_json")

\* klines.last().map(|kline| kline.close_time()).ok_or("file is empty")
get_last_close_time_from_file(f) ==
    LET read == read_data_from_file(f)
    IN  IF ~read.ok THEN read
        ELSE IF read.val = <<>> THEN Err("file is empty")
        ELSE Ok(read.val[Len(read.val)].close_time)

\* Resume planning: the effective start is the last close_time of the
\* destination's records plus one step; requested_start when there is no
\* destination or it holds no record; InvalidFile when it does not decode.
plan_resume(f, requested_start, step) ==
    IF f = None
    THEN Ok(requested_start)
    ELSE LET read == read_data_from_file(f)
         IN  IF ~read.ok THEN Err("InvalidFile")
             ELSE IF read.val = <<>> THEN Ok(requested_start)
             ELSE Ok(get_last_close_time_from_file(f).val + step)

(***************************************************************************)
(* SpecFile: records are written to the destination and read back.         *)
(***************************************************************************)
FileCommands ==
    UNION {[symbol : {"BTCUSDT"}, interval : {iv},
            from_date : {Some(t) : t \in FromDates(iv)}, to_date : {None},
            output_file : {Some("output.json")}] : iv \in Interval}

\* destinations that were there before and do not decode as records: a string
\* for a timestamp, timestamps before 1970, a good record followed by a bad one
UndecodableContents ==
    {<<[open_time |-> [text |-> "2019-01-01"], close_time |-> [text |-> "2019-01-01"]]>>,
     <<[open_time |-> [digits |-> -60, zeros |-> 6],
        close_time |-> [digits |-> -1, zeros |-> 6]]>>,
     <<[open_time |-> [digits |-> 0, zeros |-> 6],
        close_time |-> [digits |-> 59, zeros |-> 6]],
       [open_time |-> [digits |-> 60, zeros |-> 6], close_time |-> [text |-> ""]]>>}

InitFile ==
    /\ cmd \in FileCommands
    /\ PlanIdle
    /\ FetchIdle
    /\ mpc = "idle"
    /\ intervals = None
    /\ idx = 0
    /\ \E n \in 0..MaxRecs, first \in 0..MaxFirst :
          klines = [k \in 1..n |->
                       Kline((first + k - 1) * plus_duration(cmd.interval),
                             plus_duration(cmd.interval))]
    /\ file \in {None} \cup {Some(content) : content \in UndecodableContents}
    /\ progress = 0
    /\ mret = None
    /\ requests = <<>>
    /\ in_flight = {}
    /\ FileIdle

\* write_data_to_file(path, &klines), by the run before the one that reads
WriteData ==
    /\ file = None
    /\ FileIdle
    /\ file' = Some(to_writer(klines))
    /\ UNCHANGED <<cmd, planVars, fetchVars, fileVars, mpc, intervals, idx, klines,
                   progress, mret, requests, in_flight>>

\* read_data_from_file(path)
ReadData ==
    /\ read_out = None
    /\ read_out' = Some(read_data_from_file(file))
    /\ UNCHANGED <<cmd, planVars, fetchVars, mainVars, last_out, eff_start>>

\* get_last_close_time_from_file(path)
GetLastCloseTime ==
    /\ last_out = None
    /\ last_out' = Some(get_last_close_time_from_file(file))
    /\ UNCHANGED <<cmd, planVars, fetchVars, mainVars, read_out, eff_start>>

\* the resume planning of a run whose destination is the file
PlanResume ==
    /\ eff_start = None
    /\ eff_start' = Some(plan_resume(file, Unwrap(cmd.from_date),
                                     plus_duration(cmd.interval)))
    /\ UNCHANGED <<cmd, planVars, fetchVars, mainVars, read_out, last_out>>

NextFile == WriteData \/ ReadData \/ GetLastCloseTime \/ PlanResume

SpecFile == InitFile /\ [][NextFile]_vars

(***************************************************************************)
(* Claims about the file, under SpecFile.                                  *)
(***************************************************************************)
\* C7: when the destination holds records whose last record has close_time
\* T, the effective start is T + step for every requested_start < T; when
\* there are no destination records it is requested_start.
C7_ResumeCorrectness ==
    (IsSome(eff_start) /\ (file = None \/ file = Some(to_writer(klines)))) =>
        LET requested_start == Unwrap(cmd.from_date)
            stored == IF IsSome(file) THEN klines ELSE <<>>
        IN  IF stored = <<>>
            THEN eff_start = Some(Ok(requested_start))
            ELSE LET T == stored[Len(stored)].close_time
                 IN  requested_start < T =>
                         eff_start = Some(Ok(T + plus_duration(cmd.interval)))

\* C11: what write_data_to_file wrote, read_data_from_file reads back: as
\* many records, in the same order, each with the open_time and close_time
\* instants that were written.
C11_RoundTrip ==
    (IsSome(read_out) /\ file = Some(to_writer(klines))) =>
        /\ Unwrap(read_out).ok
        /\ Len(Unwrap(read_out).val) = Len(klines)
        /\ \A i \in 1..Len(klines) :
               /\ Unwrap(read_out).val[i].open_time = klines[i].open_time
               /\ Unwrap(read_out).val[i].close_time = klines[i].close_time

concurrency_limit == 90

\* the positions of the requests that were started: the answered ones and
\* those in flight
Started == (1..Len(requests)) \cup in_flight

\* never more requests in flight than the limit
InFlightBounded == Cardinality(in_flight) <= concurrency_limit

\* a request is sent only while fewer than the limit are in flight
StartsBelowLimit ==
    [][in_flight' \ in_flight # {} => Cardinality(in_flight) < concurrency_limit]_vars

\* C13: at most concurrency_limit requests are in flight at any time, and
\* every descriptor of the plan is started: when the run is over, the request
\* of every sub-range was sent.
C13_BoundedConcurrency ==
    /\ InFlightBounded
    /\ (mpc = "done" /\ IsSome(intervals)) =>
           \A i \in 1..Len(Unwrap(intervals)) : i \in Started

=============================================================================
